---- MODULE Spec2Model ----
(***************************************************************************)
(* Model of calender-sync: fetch_dayorder.get_next_5_day_orders and        *)
(* calender_updater.update_calendar, stepped at the granularity of the     *)
(* calls made to the schedule API and to the calendar service.             *)
(*                                                                         *)
(* Strings that the code converts (day-of-month keys, clock times) are     *)
(* sequences of characters, so int() and str() are real conversions.       *)
(* A calendar date is its proleptic ordinal (date.toordinal()); strftime   *)
(* of a date is injective, so the formatted date is the ordinal.           *)
(***************************************************************************)
EXTENDS Integers, Sequences, FiniteSets, TLC

\* ---------------------------------------------------------------- bounds
\* Days in the month the schedule API answers for (full pass).
MonthDays == 3
\* Days in the month the schedule API answers for (fetcher alone).
FetchMonthDays == 7
\* Events each date of the calendar may hold before the pass.
MaxPrior == 2
\* Calls to the calendar service that may fail in one pass.
MaxFailures == 1
\* Ordinal of the last day of the previous month.
MonthStart == 100

\* ------------------------------------------------------- program constants
\* fetch_dayorder.py:21  "if count >= 5: break"
FetchLimit == 5
\* fetch_dayorder.py:12  "response.status_code == 200"
HTTP_OK == 200

\* ------------------------------------------------------------ conversions
Digits == <<"0", "1", "2", "3", "4", "5", "6", "7", "8", "9">>

DigitValue(c) == CHOOSE v \in 0..9 : Digits[v + 1] = c

\* Python int(s) on a string of decimal digits (leading zeros accepted).
RECURSIVE int(_)
int(s) ==
    IF Len(s) = 0 THEN 0
    ELSE int(SubSeq(s, 1, Len(s) - 1)) * 10 + DigitValue(s[Len(s)])

\* Python str(n) on a non-negative integer: canonical decimal, no padding.
RECURSIVE str(_)
str(n) ==
    IF n < 10 THEN <<Digits[n + 1]>>
    ELSE str(n \div 10) \o <<Digits[(n % 10) + 1]>>

\* The zero-padded two-character form some APIs use for a day of month.
Padded(n) == IF n < 10 THEN <<"0">> \o str(n) ELSE str(n)

\* format_datetime(date, time_str): "H:MM" is padded to "HH:MM", then
\* f"{date}T{time_str}:00+05:30".
format_datetime(date, time_str) ==
    LET t == IF Len(time_str) = 4 THEN <<"0">> \o time_str ELSE time_str
    IN  [date |-> date, time |-> t \o <<":", "0", "0">>, offset |-> "+05:30"]

\* ------------------------------------------------------------ dict helpers
\* A Python dict is an insertion-ordered sequence of [k, v] with unique keys.
DictKeys(d) == {d[i].k : i \in 1..Len(d)}

DictSet(d, key, val) ==
    IF key \in DictKeys(d)
    THEN [i \in 1..Len(d) |-> IF d[i].k = key THEN [k |-> key, v |-> val] ELSE d[i]]
    ELSE Append(d, [k |-> key, v |-> val])

SetMin(S) == CHOOSE x \in S : \A y \in S : x <= y
SetMax(S) == CHOOSE x \in S : \A y \in S : x >= y

\* ------------------------------------------------------------ the fetcher
\* fetch_dayorder.py:12
status_ok_ignored(resp) == TRUE
status_ok(resp) == resp.status_code = HTTP_OK

\* fetch_dayorder.py:24-25: a day record is kept
qualifies_any_date(day, today_date) == day.dayOrder # "-"
qualifies(day, today_date) ==
    int(day.date) >= today_date /\ day.dayOrder # "-"

\* fetch_dayorder.py:21: the loop stops
limit_reached_late(count) == count > FetchLimit
limit_reached(count) == count >= FetchLimit

\* fetch_dayorder.py:17-27: the loop over month_data
RECURSIVE fetch_loop(_, _, _, _)
fetch_loop(month_data, today_date, next_5_days, count) ==
    IF month_data = <<>> \/ limit_reached(count) THEN next_5_days
    ELSE LET day == Head(month_data) IN
         IF qualifies(day, today_date)
         THEN fetch_loop(Tail(month_data), today_date,
                         DictSet(next_5_days, day.date, day.dayOrder), count + 1)
         ELSE fetch_loop(Tail(month_data), today_date, next_5_days, count)

\* fetch_dayorder.py:6-31: None on a non-success status, else the mapping.
get_next_5_day_orders(resp, today_date) ==
    IF status_ok(resp)
    THEN [is_none |-> FALSE, items |-> fetch_loop(resp.days, today_date, <<>>, 0)]
    ELSE [is_none |-> TRUE, items |-> <<>>]

\* Python truthiness of the fetch result: "if not day_orders".
falsy(r) == r.is_none \/ Len(r.items) = 0


\* --------------------------------------------------- the class schedule file
Time(h, m) == h \o <<":">> \o m

\* config/class_schedule.json as deployed: day order "1" has two classes,
\* day order "2" has one, day order "3" has no entry.
ScheduleFileContent ==
    [x \in {"1", "2"} |->
        IF x = "1"
        THEN << [subject |-> "PQT", start_time |-> Time(<<"9">>, <<"3", "0">>),
                 end_time |-> Time(<<"1", "0">>, <<"2", "0">>)],
                [subject |-> "XYZ", start_time |-> Time(<<"1", "4">>, <<"0", "0">>),
                 end_time |-> Time(<<"1", "4">>, <<"5", "0">>)] >>
        ELSE << [subject |-> "AI", start_time |-> Time(<<"8">>, <<"0", "0">>),
                 end_time |-> Time(<<"8">>, <<"5", "0">>)] >>]

FileStates == {"ok", "missing", "malformed"}

\* calender_updater.py:176-186: None on FileNotFoundError / JSONDecodeError.
load_class_schedule(file) ==
    IF file = "ok"
    THEN [is_none |-> FALSE, table |-> ScheduleFileContent]
    ELSE [is_none |-> TRUE, table |-> <<>>]

\* calender_updater.py:154: "if not class_schedule: return"
schedule_missing_ignored(cs) == FALSE
schedule_missing(cs) == cs.is_none \/ DOMAIN cs.table = {}

\* calender_updater.py:167: "if str(day_order) in class_schedule"
has_schedule_always(day_order, cs) == TRUE
has_schedule(day_order, cs) == (~cs.is_none) /\ day_order \in DOMAIN cs.table

\* calender_updater.py:88, 101: the assignment of base_subject is commented
\* out, so evaluating the event body raises NameError before the insert call.
base_subject_defined == FALSE

\* ------------------------------------------------------- the date arithmetic
\* calender_updater.py:126-128
date_numbers(items) == {int(items[i].k) : i \in 1..Len(items)}

\* calender_updater.py:131-135: the while loop
RECURSIVE range_loop(_, _, _)
range_loop(current_date, max_date, acc) ==
    IF current_date <= max_date
    THEN range_loop(current_date + 1, max_date, acc \cup {str(current_date)})
    ELSE acc

all_dates_in_range(items) ==
    range_loop(SetMin(date_numbers(items)), SetMax(date_numbers(items)), {})

\* calender_updater.py:138-139
holidays_not_subtracted(items) == all_dates_in_range(items)
compute_holiday_dates(items) == all_dates_in_range(items) \ DictKeys(items)

\* calender_updater.py:147-148, 158-159: today + timedelta(int(d) - today.day)
event_date(td, date_num) == td.ordinal + (int(date_num) - td.day)

\* calender_updater.py:25-30: raises ValueError when CALENDAR_ID is unset
calendar_id_unchecked(e) == TRUE
calendar_id_ok(e) == e.CALENDAR_ID

\* calender_updater.py:68-76: the except clause swallows a failed delete
delete_failure_propagates(ok) == ~ok
delete_raises(ok) == FALSE

\* calender_updater.py:104-110: the except clause swallows a failed insert
insert_raises(ok) == FALSE

\* ------------------------------------------------------- the calendar service
EventsOn(cal, date) == {e \in cal : e.date = date}

\* calender_updater.py:46-57: the events between 00:00 and 23:59 of the date
get_events_for_specific_date(cal, date_str) ==
    LET day_start == format_datetime(date_str, <<"0", "0", ":", "0", "0">>)
        day_end == format_datetime(date_str, <<"2", "3", ":", "5", "9">>)
    IN  {e \in cal : day_start.date <= e.date /\ e.date <= day_end.date}

\* events().list(...).execute().get("items", []): the day's events, by id
RECURSIVE SortById(_)
SortById(S) ==
    IF S = {} THEN <<>>
    ELSE LET m == CHOOSE e \in S : \A f \in S : e.id <= f.id
         IN  <<m>> \o SortById(S \ {m})

InitialCalendar(n) ==
    {[id |-> d * 10 + k, date |-> MonthStart + d, summary |-> "old"] :
        d \in 1..MonthDays, k \in 1..n}


\* ------------------------------------------------------------------- state
VARIABLES
    env,             \* os.environ and the config file as the process finds them
    today,           \* datetime.now(): [day, ordinal]
    response,        \* what the schedule API answers: [status_code, days]
    calendar,        \* the calendar service's events: set of [id, date, summary]
    day_orders,      \* update_calendar: the fetch result
    service,         \* update_calendar: the calendar service has been built
    holiday_dates,   \* update_calendar: holiday_dates
    remaining,       \* holidays the first for loop has not visited yet
    class_schedule,  \* update_calendar: the loaded table
    idx,             \* position of the second for loop in day_orders.items()
    phase,           \* which for loop called delete_all_events_for_date
    cur_date,        \* formatted_date of the date being processed
    pending,         \* delete_all_events_for_date: events still to delete
    class_idx,       \* position of the create_event loop in the class list
    log,             \* every call issued to the calendar service, in order
    failures,        \* calendar calls that have failed so far
    error,           \* the exception update_calendar caught and printed
    result,          \* how update_calendar ended: running, returned, raised
    pc

vars == <<env, today, response, calendar, day_orders, service, holiday_dates,
          remaining, class_schedule, idx, phase, cur_date, pending, class_idx,
          log, failures, error, result, pc>>

Labels == {"-", "1", "2", "3"}

\* The API's month: one record per day of the month, in date order.
MonthResponse(status, n, lab, padded) ==
    [status_code |-> status,
     days |-> [d \in 1..n |->
                 [date |-> IF padded THEN Padded(d) ELSE str(d),
                  dayOrder |-> lab[d]]]]

Reverse(q) == [i \in 1..Len(q) |-> q[Len(q) + 1 - i]]

NoSchedule == [is_none |-> TRUE, table |-> <<>>]
NoDayOrders == [is_none |-> TRUE, items |-> <<>>]

Idle ==
    /\ day_orders = NoDayOrders
    /\ service = FALSE
    /\ holiday_dates = {}
    /\ remaining = {}
    /\ class_schedule = NoSchedule
    /\ idx = 0
    /\ phase = "none"
    /\ cur_date = 0
    /\ pending = <<>>
    /\ class_idx = 0
    /\ log = <<>>
    /\ failures = 0
    /\ error = "none"
    /\ result = "running"
    /\ pc = "start"

Init ==
    /\ env \in [API_URL : BOOLEAN, GOOGLE_CREDENTIALS : BOOLEAN,
                CALENDAR_ID : BOOLEAN, schedule_file : FileStates]
    /\ \E t \in 1..MonthDays : today = [day |-> t, ordinal |-> MonthStart + t]
    /\ \E status \in {HTTP_OK, 500}, lab \in [1..MonthDays -> Labels] :
          response = MonthResponse(status, MonthDays, lab, FALSE)
    /\ \E n \in 0..MaxPrior : calendar = InitialCalendar(n)
    /\ Idle

\* calender_updater.py:173-174: the outer except prints and falls through.
Abort(exc) ==
    /\ error' = exc
    /\ result' = "returned"
    /\ pc' = "done"

Return ==
    /\ result' = "returned"
    /\ pc' = "done"
    /\ UNCHANGED error

\* The calendar service answers a call: it succeeds, or it fails (HttpError).
Outcomes == IF failures < MaxFailures THEN BOOLEAN ELSE {TRUE}

Count(ok) == IF ok THEN failures ELSE failures + 1

Call(op, date, arg, ok) == [op |-> op, date |-> date, arg |-> arg, ok |-> ok]

\* calender_updater.py:116-119 (and fetch_dayorder.py:8-10: requests.get of
\* an unset API_URL raises outside the try block).  The call that
\* fetch_dayorder.py:33 makes when the module is imported only prints its
\* result and is not a step of the pass.
Fetch ==
    /\ pc = "start"
    /\ IF ~env.API_URL
       THEN /\ result' = "raised"
            /\ error' = "MissingSchema"
            /\ pc' = "done"
            /\ UNCHANGED day_orders
       ELSE /\ day_orders' = get_next_5_day_orders(response, today.day)
            /\ IF falsy(day_orders')
               THEN Return
               ELSE /\ pc' = "setup"
                    /\ UNCHANGED <<error, result>>
    /\ UNCHANGED <<env, today, response, calendar, service, holiday_dates,
                   remaining, class_schedule, idx, phase, cur_date, pending,
                   class_idx, log, failures>>

\* calender_updater.py:122-143
Setup ==
    /\ pc = "setup"
    /\ IF ~env.GOOGLE_CREDENTIALS
       THEN /\ Abort("TypeError")
            /\ UNCHANGED <<service, holiday_dates, remaining>>
       ELSE /\ service' = TRUE
            /\ holiday_dates' = compute_holiday_dates(day_orders.items)
            /\ remaining' = holiday_dates'
            /\ pc' = "holidays"
            /\ UNCHANGED <<error, result>>
    /\ UNCHANGED <<env, today, response, calendar, day_orders, class_schedule,
                   idx, phase, cur_date, pending, class_idx, log, failures>>

\* calender_updater.py:59-64 with 42-57: get_calendar_id, then the list call.
\* A failing list call is not wrapped: it reaches the outer except.
StartDelete(date, ph) ==
    IF ~calendar_id_ok(env)
    THEN /\ Abort("ValueError")
         /\ UNCHANGED <<phase, cur_date, pending, log, failures>>
    ELSE \E ok \in Outcomes :
         /\ log' = Append(log, Call("list", date,
                                     IF ok THEN Cardinality(
                                         get_events_for_specific_date(calendar, date))
                                     ELSE 0, ok))
         /\ failures' = Count(ok)
         /\ cur_date' = date
         /\ phase' = ph
         /\ IF ok
            THEN /\ pending' = SortById(get_events_for_specific_date(calendar, date))
                 /\ pc' = "deleting"
                 /\ UNCHANGED <<error, result>>
            ELSE /\ Abort("HttpError")
                 /\ UNCHANGED pending

\* calender_updater.py:146-150: the set is iterated in no particular order.
HolidayStep ==
    /\ pc = "holidays"
    /\ remaining # {}
    /\ \E date_num \in remaining :
          /\ remaining' = remaining \ {date_num}
          /\ StartDelete(event_date(today, date_num), "holiday")
    /\ UNCHANGED <<env, today, response, calendar, day_orders, service,
                   holiday_dates, class_schedule, idx, class_idx>>

\* calender_updater.py:153-155
LoadSchedule ==
    /\ pc = "holidays"
    /\ remaining = {}
    /\ class_schedule' = load_class_schedule(env.schedule_file)
    /\ IF schedule_missing(class_schedule')
       THEN /\ Return
            /\ UNCHANGED idx
       ELSE /\ idx' = 1
            /\ pc' = "scheduled"
            /\ UNCHANGED <<error, result>>
    /\ UNCHANGED <<env, today, response, calendar, day_orders, service,
                   holiday_dates, remaining, phase, cur_date, pending,
                   class_idx, log, failures>>

\* calender_updater.py:157-164
ScheduledStep ==
    /\ pc = "scheduled"
    /\ idx <= Len(day_orders.items)
    /\ StartDelete(event_date(today, day_orders.items[idx].k), "scheduled")
    /\ UNCHANGED <<env, today, response, calendar, day_orders, service,
                   holiday_dates, remaining, class_schedule, idx, class_idx>>

\* calender_updater.py:157: the for loop is exhausted; update_calendar returns.
Finish ==
    /\ pc = "scheduled"
    /\ idx > Len(day_orders.items)
    /\ Return
    /\ UNCHANGED <<env, today, response, calendar, day_orders, service,
                   holiday_dates, remaining, class_schedule, idx, phase,
                   cur_date, pending, class_idx, log, failures>>

\* calender_updater.py:67-76: one iteration of the delete loop.
DeleteEvent ==
    /\ pc = "deleting"
    /\ pending # <<>>
    /\ \E ok \in Outcomes :
          /\ log' = Append(log, Call("delete", cur_date, Head(pending).id, ok))
          /\ failures' = Count(ok)
          /\ calendar' = IF ok THEN calendar \ {Head(pending)} ELSE calendar
          /\ IF delete_raises(ok)
             THEN /\ Abort("HttpError")
                  /\ UNCHANGED pending
             ELSE /\ pending' = Tail(pending)
                  /\ UNCHANGED <<error, result, pc>>
    /\ UNCHANGED <<env, today, response, day_orders, service, holiday_dates,
                   remaining, class_schedule, idx, phase, cur_date, class_idx>>

\* calender_updater.py:78-81, then back in the caller: 146 (next holiday) or
\* 167-171 (the class list of the day order, or "No schedule found").
DeleteDone ==
    /\ pc = "deleting"
    /\ pending = <<>>
    /\ IF phase = "holiday"
       THEN /\ pc' = "holidays"
            /\ UNCHANGED <<idx, class_idx>>
       ELSE IF has_schedule(day_orders.items[idx].v, class_schedule)
            THEN /\ pc' = "creating"
                 /\ class_idx' = 1
                 /\ UNCHANGED idx
            ELSE /\ pc' = "scheduled"
                 /\ idx' = idx + 1
                 /\ UNCHANGED class_idx
    /\ UNCHANGED <<env, today, response, calendar, day_orders, service,
                   holiday_dates, remaining, class_schedule, phase, cur_date,
                   pending, log, failures, error, result>>

\* calender_updater.py:168: class_schedule[str(day_order)]
ClassesOf(day_order, cs) ==
    IF (~cs.is_none) /\ day_order \in DOMAIN cs.table
    THEN cs.table[day_order] ELSE <<>>

ClassList == ClassesOf(day_orders.items[idx].v, class_schedule)

\* calender_updater.py:168-169 with 83-110: one iteration of the class loop.
CreateEvent ==
    /\ pc = "creating"
    /\ IF class_idx > Len(ClassList)
       THEN /\ pc' = "scheduled"
            /\ idx' = idx + 1
            /\ UNCHANGED <<class_idx, calendar, log, failures, error, result>>
       ELSE LET class_info == ClassList[class_idx] IN
            IF ~calendar_id_ok(env)
            THEN /\ Abort("ValueError")
                 /\ UNCHANGED <<idx, class_idx, calendar, log, failures>>
            ELSE IF ~base_subject_defined
            THEN /\ Abort("NameError")
                 /\ UNCHANGED <<idx, class_idx, calendar, log, failures>>
            ELSE \E ok \in Outcomes :
                 /\ log' = Append(log, Call("insert", cur_date, class_idx, ok))
                 /\ failures' = Count(ok)
                 /\ calendar' =
                       IF ok
                       THEN calendar \cup
                            {[id |-> 1000 + Len(log), date |-> cur_date,
                              summary |-> class_info.subject]}
                       ELSE calendar
                 /\ IF insert_raises(ok)
                    THEN /\ Abort("HttpError")
                         /\ UNCHANGED <<idx, class_idx>>
                    ELSE /\ class_idx' = class_idx + 1
                         /\ UNCHANGED <<idx, error, result, pc>>
    /\ UNCHANGED <<env, today, response, day_orders, service, holiday_dates,
                   remaining, class_schedule, phase, cur_date, pending>>

Next ==
    \/ Fetch
    \/ Setup
    \/ HolidayStep
    \/ LoadSchedule
    \/ ScheduledStep
    \/ Finish
    \/ DeleteEvent
    \/ DeleteDone
    \/ CreateEvent

Spec == Init /\ [][Next]_vars


\* The fetcher and the range computation alone, on a longer month whose
\* days are listed in date order or reversed, with plain or zero-padded day
\* numbers.  A day either has no day order ("-") or the day order its
\* position in the cycle gives it.
CycleOrder(d) == IF d % 2 = 1 THEN "1" ELSE "2"

FetchLabelings ==
    {lab \in [1..FetchMonthDays -> {"-", "1", "2"}] :
        \A d \in 1..FetchMonthDays : lab[d] \in {"-", CycleOrder(d)}}

InitFetch ==
    /\ env = [API_URL |-> TRUE, GOOGLE_CREDENTIALS |-> TRUE,
              CALENDAR_ID |-> FALSE, schedule_file |-> "missing"]
    /\ \E t \in 1..FetchMonthDays : today = [day |-> t, ordinal |-> MonthStart + t]
    /\ \E status \in {HTTP_OK, 500}, padded \in BOOLEAN, reversed \in BOOLEAN,
          lab \in FetchLabelings :
          LET r == MonthResponse(status, FetchMonthDays, lab, padded)
          IN  response = IF reversed
                         THEN [r EXCEPT !.days = Reverse(r.days)]
                         ELSE r
    /\ calendar = {}
    /\ Idle

NextFetch ==
    \/ Fetch
    \/ Setup

SpecFetch == InitFetch /\ [][NextFetch]_vars


\* ------------------------------------------------------------ vocabulary
Done == pc = "done"

LogIdx == 1..Len(log)

Calls(op, date) == {i \in LogIdx : log[i].op = op /\ log[i].date = date}

Items == day_orders.items

\* The date the second for loop computes for the i-th fetched entry.
ScheduledDate(i) == event_date(today, Items[i].k)

ScheduledDates == {ScheduledDate(i) : i \in 1..Len(Items)}

HolidayDatesOf == {event_date(today, h) : h \in holiday_dates}

DayNumbers == {int(Items[i].k) : i \in 1..Len(Items)}

\* The environment is complete, the fetch gave a non-empty mapping with keys
\* "1".."31", the table loaded, and every call issued to the calendar service
\* succeeded.
CleanPass ==
    /\ Done
    /\ env.API_URL /\ env.GOOGLE_CREDENTIALS /\ env.CALENDAR_ID
    /\ ~falsy(day_orders)
    /\ \A k \in DictKeys(day_orders.items) : str(int(k)) = k
    /\ ~class_schedule.is_none
    /\ \A i \in LogIdx : log[i].ok

\* load_class_schedule was called and failed, so update_calendar returned
\* at line 155.
LoadFailed ==
    /\ Done
    /\ result = "returned"
    /\ error = "none"
    /\ ~falsy(day_orders)
    /\ class_schedule.is_none

\* C1 (as claimed): after a clean pass every processed date holds no event
\* if it is a holiday, and exactly one event per class entry of its day
\* order, and nothing else, if it is scheduled with an entry in the table.
C1_CalendarMatchesSchedule ==
    CleanPass =>
        /\ \A d \in HolidayDatesOf \ ScheduledDates :
              Calls("list", d) # {} => EventsOn(calendar, d) = {}
        /\ \A i \in 1..Len(Items) :
              (/\ Calls("list", ScheduledDate(i)) # {}
               /\ has_schedule(Items[i].v, class_schedule))
              => LET classes == ClassesOf(Items[i].v, class_schedule)
                     evs == EventsOn(calendar, ScheduledDate(i))
                 IN  /\ Cardinality(evs) = Len(classes)
                     /\ {e.summary : e \in evs} =
                        {classes[k].subject : k \in 1..Len(classes)}

\* C2 (as claimed): after a clean pass, each scheduled date whose day order
\* has an entry in the table got as many insert calls as the entry has
\* classes.
C2_OneInsertPerClass ==
    CleanPass =>
        \A i \in 1..Len(Items) :
            has_schedule(Items[i].v, class_schedule)
            => Cardinality(Calls("insert", ScheduledDate(i))) =
               Len(ClassesOf(Items[i].v, class_schedule))

\* C3: when the schedule API answers with a non-success status, the fetch
\* result is None, no call is ever issued to the calendar service, the
\* service is not built and the calendar is left as it was.
C3_NoCalendarOpsOnHttpError ==
    (env.API_URL /\ response.status_code # HTTP_OK) =>
        /\ log = <<>>
        /\ ~service
        /\ pc \in {"start", "done"}
        /\ Done => (day_orders.is_none /\ result = "returned" /\ error = "none")

C3_Witness ==
    /\ Done
    /\ env.API_URL /\ env.GOOGLE_CREDENTIALS /\ env.CALENDAR_ID
    /\ env.schedule_file = "ok"
    /\ response.status_code = 500
    /\ \E i \in 1..Len(response.days) : response.days[i].dayOrder = "1"
    /\ calendar # {}
    /\ day_orders.is_none

\* The deletes that follow a list call: every listed event gets its delete
\* call, whether or not earlier deletes succeeded.
DeletesAfter(i) ==
    {j \in LogIdx : /\ j > i
                    /\ j <= i + log[i].arg
                    /\ log[j].op = "delete"
                    /\ log[j].date = log[i].date}

IsCurrentList(i) ==
    /\ pc = "deleting"
    /\ \A j \in LogIdx : log[j].op = "list" => j <= i

\* C4: a failing delete or insert call does not abort the pass.  (a) The
\* only service failure update_calendar ever stops on is a failing list call;
\* (b) every event a list call returned gets its delete call, failures or
\* not; (c) the dates the pass visits do not depend on failures: when the
\* pass got past the holiday loop every holiday date was listed, and every
\* fetched entry before the loop position was listed.
C4_FailureDoesNotAbort ==
    /\ error = "HttpError" =>
          (log # <<>> /\ log[Len(log)].op = "list" /\ ~log[Len(log)].ok)
    /\ \A i \in LogIdx :
          (log[i].op = "list" /\ log[i].ok) =>
              Cardinality(DeletesAfter(i)) =
                 IF IsCurrentList(i) THEN log[i].arg - Len(pending)
                 ELSE log[i].arg
    /\ (Done /\ error \in {"none", "NameError"} /\ ~falsy(day_orders)) =>
          /\ \A d \in HolidayDatesOf : Calls("list", d) # {}
          /\ \A i \in 1..Len(Items) :
                (i < idx \/ (i = idx /\ error = "NameError"))
                => Calls("list", ScheduledDate(i)) # {}

\* A delete failed, a later event of the same date was still deleted, and a
\* later date was still processed.
C4_Witness ==
    /\ Done
    /\ \E i, j, k \in LogIdx :
          /\ i < j /\ j < k
          /\ log[i].op = "delete" /\ ~log[i].ok
          /\ log[j].op = "delete" /\ log[j].ok /\ log[j].date = log[i].date
          /\ log[k].op = "delete" /\ log[k].date # log[i].date


\* C5 (checked under SpecFetch): on a success response the fetcher returns the mapping built from the
\* first FetchLimit records, in response order, whose date is not before
\* today's day of month and whose day order is not the sentinel: at most
\* FetchLimit entries, none before today, none with the sentinel as value.
Qualifying ==
    {i \in 1..Len(response.days) :
        /\ int(response.days[i].date) >= today.day
        /\ response.days[i].dayOrder # "-"}

FirstFive ==
    {i \in Qualifying : Cardinality({j \in Qualifying : j < i}) < FetchLimit}

C5_FirstFiveQualifying ==
    (pc # "start" /\ response.status_code = HTTP_OK) =>
        /\ ~day_orders.is_none
        /\ DictKeys(Items) = {response.days[i].date : i \in FirstFive}
        /\ \A n \in 1..Len(Items) :
              LET last == SetMax({i \in FirstFive :
                                     response.days[i].date = Items[n].k})
              IN  Items[n].v = response.days[last].dayOrder
        /\ \A m, n \in 1..Len(Items) :
              m < n =>
                 /\ Items[m].k # Items[n].k
                 /\ SetMin({i \in FirstFive : response.days[i].date = Items[m].k})
                    < SetMin({i \in FirstFive : response.days[i].date = Items[n].k})
        /\ Len(Items) <= FetchLimit
        /\ \A n \in 1..Len(Items) :
              int(Items[n].k) >= today.day /\ Items[n].v # "-"

\* More records qualify than the limit and a record that does not qualify
\* (before today, or carrying the sentinel) stands among the kept ones; the
\* result has exactly FetchLimit entries and leaves a qualifying record out.
C5_Witness ==
    /\ pc # "start"
    /\ response.status_code = HTTP_OK
    /\ Cardinality(Qualifying) > FetchLimit
    /\ Len(Items) = FetchLimit
    /\ \E i \in 1..Len(response.days) :
          /\ i \notin Qualifying
          /\ i < SetMax(FirstFive)
    /\ \E i \in Qualifying : response.days[i].date \notin DictKeys(Items)

\* C6 (checked under SpecFetch): the holiday set is the set of day numbers of the range
\* [min fetched, max fetched], written as str() writes them, that are not
\* keys of the fetched mapping; it is disjoint from the scheduled set and
\* the two cover the range.  When the keys are written as str() writes them
\* the same holds of the numbers themselves.
RangeNumbers == SetMin(DayNumbers)..SetMax(DayNumbers)

KeysCanonical == \A k \in DictKeys(Items) : str(int(k)) = k

C6_HolidaySet ==
    service =>
        /\ holiday_dates = {str(d) : d \in RangeNumbers} \ DictKeys(Items)
        /\ holiday_dates \cap DictKeys(Items) = {}
        /\ {str(d) : d \in RangeNumbers} \subseteq holiday_dates \cup DictKeys(Items)
        /\ KeysCanonical =>
              /\ {int(h) : h \in holiday_dates} = RangeNumbers \ DayNumbers
              /\ {int(h) : h \in holiday_dates} \cup DayNumbers = RangeNumbers

\* Fetched dates 5 and 7 (of a month that also lists earlier days): the
\* holiday set is {6}.
C6_Witness ==
    /\ service
    /\ DictKeys(Items) = {str(5), str(7)}
    /\ holiday_dates = {str(6)}
    /\ today.day > 1

\* C7 (as claimed): when load_class_schedule fails no delete call and no
\* insert call has been issued on any date (day-of-month keys as the API
\* documents them, "1".."31").
C7_NoMutationWhenLoadFails ==
    (LoadFailed /\ KeysCanonical) => \A i \in LogIdx : log[i].op \notin {"delete", "insert"}

\* C7 (amended): when load_class_schedule fails the loop over the scheduled
\* dates is never entered and no insert call is issued; the calls of the run
\* are the list and delete calls of the holiday loop, which ran to its end
\* before the table was loaded.
C7_AbortsScheduledLoopOnly ==
    LoadFailed =>
        /\ idx = 0
        /\ \A i \in LogIdx :
              /\ log[i].op \in {"list", "delete"}
              /\ log[i].date \in HolidayDatesOf
        /\ \A d \in HolidayDatesOf : Calls("list", d) # {}

\* The table failed to load after a holiday was cleared, and a scheduled
\* date still holds its old events.
C7_Witness ==
    /\ LoadFailed
    /\ \E i \in LogIdx : log[i].op = "delete" /\ log[i].ok
    /\ \E d \in ScheduledDates \ HolidayDatesOf : EventsOn(calendar, d) # {}

\* C8: with CALENDAR_ID unset no list, delete or insert call is issued; the
\* ValueError of get_calendar_id is caught inside update_calendar, which
\* returns normally.
C8_NoCalendarOpsWithoutCalendarId ==
    ~env.CALENDAR_ID =>
        /\ log = <<>>
        /\ pc \notin {"deleting", "creating"}
        /\ error = "ValueError" => (Done /\ result = "returned")
        /\ (Done /\ env.API_URL) => result = "returned"

C8_Witness ==
    /\ ~env.CALENDAR_ID
    /\ Done
    /\ error = "ValueError"
    /\ result = "returned"
    /\ service
    /\ calendar # {}
    /\ log = <<>>


\* The last list call of the log, for the date being processed.
LastList == SetMax({i \in LogIdx : log[i].op = "list"})

InTable(day_order) ==
    (~class_schedule.is_none) /\ day_order \in DOMAIN class_schedule.table

\* C9: for a scheduled date the list call and all delete calls come before
\* any insert call for it, and none comes after one.  create_event is only
\* entered for a day order of the table, after the date's list call
\* succeeded and every listed event got its delete call.  A scheduled date
\* whose day order is not in the table gets its list and delete calls and no
\* insert call, and the loop moves on: a pass that meets only such dates
\* visits every fetched date and ends without error.
C9_DeleteBeforeInsert ==
    /\ \A i \in LogIdx :
          log[i].op = "insert" =>
              /\ \E j \in LogIdx : j < i /\ log[j].op = "list"
                                   /\ log[j].date = log[i].date
              /\ \A j \in LogIdx :
                    (log[j].date = log[i].date /\ log[j].op \in {"list", "delete"})
                    => j < i
    /\ pc = "creating" =>
          /\ phase = "scheduled"
          /\ InTable(Items[idx].v)
          /\ pending = <<>>
          /\ log[LastList].ok
          /\ log[LastList].date = ScheduledDate(idx)
          /\ Cardinality(DeletesAfter(LastList)) = log[LastList].arg
          /\ LastList + log[LastList].arg = Len(log)
    /\ \A i \in 1..Len(Items) :
          (i < idx /\ ~InTable(Items[i].v)) =>
              /\ \E j \in Calls("list", ScheduledDate(i)) :
                    /\ log[j].ok
                    /\ Cardinality(DeletesAfter(j)) = log[j].arg
              /\ Calls("insert", ScheduledDate(i)) = {}
    /\ (Done /\ error = "none" /\ ~falsy(day_orders) /\ ~class_schedule.is_none) =>
          /\ idx = Len(Items) + 1
          /\ \A i \in 1..Len(Items) :
                ~InTable(Items[i].v) /\ Calls("list", ScheduledDate(i)) # {}

\* A date whose day order has no entry had its old events deleted, got no
\* insert call, and the next fetched date was listed after it.
C9_Witness ==
    \E i \in 1..Len(Items) :
        /\ i + 1 <= Len(Items)
        /\ ~InTable(Items[i].v)
        /\ ~class_schedule.is_none
        /\ ScheduledDate(i) \notin HolidayDatesOf
        /\ \E j \in Calls("delete", ScheduledDate(i)) : log[j].ok
        /\ Calls("insert", ScheduledDate(i)) = {}
        /\ \E j \in Calls("delete", ScheduledDate(i)),
              k \in Calls("list", ScheduledDate(i + 1)) : j < k

\* C10: every date a list, delete or insert call is issued for is today or
\* later, and the day offset computed for a fetched or holiday day number is
\* never negative.
C10_NoPastDates ==
    /\ \A i \in LogIdx : log[i].date >= today.ordinal
    /\ \A i \in 1..Len(Items) : int(Items[i].k) - today.day >= 0
    /\ \A h \in holiday_dates : int(h) - today.day >= 0
    /\ pc \in {"deleting", "creating"} => cur_date >= today.ordinal

\* The API listed a past day with a day order, the pass deleted events of a
\* later date, and the past date still holds its events.
C10_Witness ==
    /\ Done
    /\ today.day > 1
    /\ \E i \in 1..Len(response.days) :
          /\ int(response.days[i].date) < today.day
          /\ response.days[i].dayOrder # "-"
    /\ \E i \in LogIdx : log[i].op = "delete" /\ log[i].ok
    /\ \E e \in calendar : e.date < today.ordinal

====
